---- MODULE Spec2Model ----
(***************************************************************************)
(* Resumable parallel tile download (download_tiles_mp.py) and the parallel *)
(* tile-correction pass (invalid_filter_mp.py) of usgs_data_analysis.       *)
(*                                                                          *)
(* The download orchestrator partitions the tile registry against the       *)
(* per-tile progress records, submits every remaining tile to a process     *)
(* pool and collects the results in submission order, each with a timeout.  *)
(* A worker reads the record, runs the external engine into the tile's      *)
(* temp_download directory, renames the shards into the tile directory,     *)
(* recounts the tile directory and writes the record.                       *)
(*                                                                          *)
(* Writing the record is not atomic: save_txt truncates the file, then     *)
(* writes it. SpecNoise is the noise-filter pass (noise_filter_mp.py),      *)
(* whose engine writes the output file itself; SpecTile is the corrector's  *)
(* decision on one tile file (check_invalid_and_correct).                   *)
(*                                                                          *)
(* Durations are abstracted: an engine call (or the body of a correction    *)
(* worker) may last any time, so a wait of the orchestrator may expire at   *)
(* any moment at which no instantaneous step is pending.                    *)
(***************************************************************************)
EXTENDS Integers, Sequences, FiniteSets, TLC

(* ---------------------------------------------------------------------- *)
(* Bounds                                                                   *)
(* ---------------------------------------------------------------------- *)
\* largest --num_sample a run is started with
MaxSample == 3
\* largest --max_workers a run is started with
MaxWorkers == 2
\* number of orchestrator runs in one behaviour
MaxRuns == 2
\* largest number of point records in a tile file given to the corrector
MaxPoints == 3

\* The tile registries (gdf) a behaviour can run on: a registry gives, for
\* each row, the number of polygons in its geometry (0: an empty
\* MultiPolygon). Every row has its own URL parent segment, so a row is its
\* own key.
Registries == {<<3>>, <<1, 0>>}
Tiles == UNION {DOMAIN g : g \in Registries}

(* ---------------------------------------------------------------------- *)
(* Values                                                                   *)
(* ---------------------------------------------------------------------- *)
\* log/num_sample-downloaded.txt does not exist
NoRec == [exists |-> FALSE, required |-> 0, completed |-> 0]
\* the content save_txt writes: "<required>,<num_downloaded>"
save_txt(num_downloaded, required) ==
    [exists |-> TRUE, required |-> required, completed |-> num_downloaded]

\* the record file right after open(file_path, 'w'): it exists and is empty,
\* and stays so if the process is killed before the buffered writes are
\* flushed at close; read_num_sample cannot unpack its content
Truncated == [exists |-> TRUE, required |-> -1, completed |-> -1]

\* AsyncResult not yet set
NotReady == [kind |-> "pending", of |-> 0]
\* results.append(None) of the download pass
TimeoutMarker == [kind |-> "None", of |-> 0]
\* return values of generate_and_execute_pipeline for registry row i; the
\* field `of' records which row's worker produced the value
RetCount(i) == [kind |-> "count", of |-> i]
RetZero(i) == [kind |-> "zero", of |-> i]
RetError(i) == [kind |-> "error", of |-> i]

\* worker positions that occupy a pool process
Executing == {"engine", "move", "count", "open", "save",
              "count0", "open0", "save0", "work"}
\* worker positions that can last longer than the timeout
Lengthy == {"engine", "work"}

(* ---------------------------------------------------------------------- *)
(* Pure functions of the source                                             *)
(* ---------------------------------------------------------------------- *)
\* read_num_sample returns the FIRST field of the record (the num_sample of
\* the run that wrote it), not the downloaded count.
read_num_sample_downloaded(r) == r.completed
read_num_sample(r) == r.required

\* content.split(',') of an empty file has one element: the unpacking raises
\* ValueError
read_raises(r) == r = Truncated

\* the value of the except clause of the worker: the error string
except_return_count(i) == RetCount(i)
except_return(i) == RetError(i)

\* prev_num_sample as both the partitioner and the worker compute it
prev_of(r) == IF r.exists THEN read_num_sample(r) ELSE 0

\* polygons_str[prev_num_sample:num_sample] as the set of polygon indices
\* (Python slice: clipped to the list, empty when the bounds cross)
polygon_slice_from_start(prev, num, avail) == {k \in 0..(avail - 1) : k < num}
polygon_slice(prev, num, avail) == {k \in 0..(avail - 1) : prev <= k /\ k < num}

\* the if / elif / else of the worker: FALSE is the `return 0' branch
should_download(prev, num) == prev = 0 \/ num > prev

\* the partitioner's test for one row
in_remaining(r, num, avail) ==
    IF r.exists
    THEN read_num_sample(r) < num /\ read_num_sample(r) < avail
    ELSE TRUE

\* remaining_args_list: the rows kept, in registry order
RECURSIVE remaining_from_reversed(_, _, _, _)
remaining_from_reversed(i, gdf, recs, num) ==
    IF i > Len(gdf) THEN <<>>
    ELSE remaining_from_reversed(i + 1, gdf, recs, num)
         \o (IF in_remaining(recs[i], num, gdf[i]) THEN <<i>> ELSE <<>>)
RECURSIVE remaining_from(_, _, _, _)
remaining_from(i, gdf, recs, num) ==
    IF i > Len(gdf) THEN <<>>
    ELSE (IF in_remaining(recs[i], num, gdf[i]) THEN <<i>> ELSE <<>>)
         \o remaining_from(i + 1, gdf, recs, num)

\* the partitioning loop of __main__ reads every existing record outside any
\* try block: an unreadable one ends the program with a traceback
partition_raises(gdf, recs) == \E i \in DOMAIN gdf : read_raises(recs[i])

\* new_id = prev_num_sample + cur_id
new_id_local(prev, cur_id) == cur_id
new_id_next(prev, cur_id) == prev + cur_id + 1
new_id(prev, cur_id) == prev + cur_id

\* filenames_temp = os.listdir(dst_path_temp), given the files found there
\* before the engine call and the files the engine call wrote
listdir_written(before, written) == written
listdir(before, written) == before \cup written

\* what one engine invocation can leave in temp_download for a scope of n
\* polygons: one file <prefix>_<k>.laz per view that has points, k counted
\* from 0 within the invocation
engine_files(n) == SUBSET (0..(n - 1))

SetMin(S) == CHOOSE x \in S : \A y \in S : x <= y

(* ---------------------------------------------------------------------- *)
(* State                                                                    *)
(* ---------------------------------------------------------------------- *)
VARIABLES
    registry,       \* the tile registry: polygons per row
    url,            \* url[t]: parent path segment of the URL of row t
    infile,         \* corrector: the point records <<x, y>> read from tile_path
    new_file,       \* corrector: what was written to new_file_path
    dst,            \* dst[d]: global ids of the tile_<id>.laz files in save_root/d
    temp,           \* temp[d]: local ids of the files in save_root/d/temp_download
    rec,            \* rec[d]: the progress record in save_root/d/log
    pc,             \* orchestrator: "idle", "collect", "done"
    runs,           \* number of runs started
    num_sample,     \* --num_sample of the current run
    max_workers,    \* --max_workers of the current run
    remaining,      \* remaining_args_list / async_results (row indices)
    results,        \* the list run_with_timeout builds
    cur,            \* index in async_results the orchestrator waits on
    wstate,         \* wstate[t]: position of the worker of row t
    ares,           \* ares[t]: value of the AsyncResult of row t
    prev,           \* prev[t]: prev_num_sample of the worker
    scope,          \* scope[t]: polygon indices handed to the engine
    todo,           \* todo[t]: filenames_temp not yet renamed
    counted,        \* counted[t]: num_downloaded of the worker
    stale,          \* stale[t]: listed files the worker's engine call did not write
    out,            \* out[t]: the file new_file_path of the correction pass
    starts,         \* history: times row t's task was started in this run
    abandoned,      \* history: rows whose timeout expired during the engine call
    prev_target,    \* history: num_sample of the previous run (0: none)
    last_completed, \* history: last[t]: completed of the last record written
    interrupted     \* history: where the last unfinished dispatch of t ended

fs == <<dst, temp, rec>>
orch == <<pc, runs, num_sample, max_workers, remaining, results, cur>>
wrk == <<wstate, ares, prev, scope, todo, counted, stale>>
hist == <<starts, abandoned, prev_target, last_completed>>
corr == <<out>>
env == <<registry, infile, new_file, url>>
vars == <<registry, url, infile, new_file, out, dst, temp, rec, pc, runs, num_sample, max_workers, remaining,
          results, cur, wstate, ares, prev, scope, todo, counted, stale,
          starts, abandoned, prev_target, last_completed, interrupted>>

\* name = url.split('/')[-2]: the directory under save_root a row is stored in
name(t) == url[t]

\* log_file of a row: the record file under the row's directory
log_file == [t \in Tiles |-> rec[name(t)]]

\* the part of the worker a position belongs to: the engine call, the
\* reconciliation (listing, renames, recount) or the writing of the record
phase(w) ==
    IF w \in {"engine", "work"} THEN "engine"
    ELSE IF w \in {"save", "save0"} THEN "commit"
    ELSE "reconcile"

\* number of pool processes that are busy
Busy == Cardinality({t \in Tiles : wstate[t] \in Executing})

\* the pool hands out tasks in submission order
NextQueued(t) ==
    /\ wstate[t] = "queued"
    /\ \A u \in Tiles : wstate[u] = "queued" => t <= u

\* the pool starts a task only on a process that is not executing one
has_idle_process_always == TRUE
has_idle_process == Busy < max_workers

CanStart == \E t \in Tiles : NextQueued(t) /\ has_idle_process

\* Only the engine call (and the body of the correction worker) takes time:
\* starting a task and the file operations after the engine call are
\* instantaneous on the scale of the timeout, so no wait expires while one
\* of them is pending.
Instantaneous == CanStart \/ \E t \in Tiles : wstate[t] \in Executing \ Lengthy

\* async_result.get(timeout) can give up on the value v of an AsyncResult:
\* the wait is bounded and v is not set
gives_up_never(v) == FALSE
gives_up(v) == v = NotReady

\* the value async_result.get returns for the k-th submitted task
result_of_first_ready(k) ==
    ares[remaining[CHOOSE j \in 1..Len(remaining) :
            /\ ares[remaining[j]] # NotReady
            /\ \A i \in 1..(j - 1) : ares[remaining[i]] = NotReady]]
result_of(k) == ares[remaining[k]]

\* The orchestrator is blocked in get() on the AsyncResult's condition
\* variable: it takes its step the moment the value is set, before any
\* worker takes another step.
OrchReady ==
    /\ pc = "collect"
    /\ cur <= Len(remaining)
    /\ ares[remaining[cur]] # NotReady

\* no file at new_file_path; axis is the array passed to
\* return_bigger_tile_mask
NoFile == [operation |-> "none", axis |-> "none", points |-> <<>>]

\* nothing stored under save_root, no run started
InitState ==
    /\ dst = [t \in Tiles |-> {}]
    /\ temp = [t \in Tiles |-> {}]
    /\ rec = [t \in Tiles |-> NoRec]
    /\ pc = "idle"
    /\ runs = 0
    /\ num_sample = 0
    /\ max_workers = 0
    /\ remaining = <<>>
    /\ results = <<>>
    /\ cur = 1
    /\ wstate = [t \in Tiles |-> "none"]
    /\ ares = [t \in Tiles |-> NotReady]
    /\ prev = [t \in Tiles |-> 0]
    /\ scope = [t \in Tiles |-> {}]
    /\ todo = [t \in Tiles |-> {}]
    /\ counted = [t \in Tiles |-> 0]
    /\ out = [t \in Tiles |-> "none"]
    /\ starts = [t \in Tiles |-> 0]
    /\ abandoned = {}
    /\ prev_target = 0
    /\ stale = [t \in Tiles |-> {}]
    /\ last_completed = [t \in Tiles |-> 0]
    /\ interrupted = [t \in Tiles |-> "no"]

\* a registry whose rows have distinct parent path segments
InitPass ==
    /\ registry \in Registries
    /\ url = [t \in Tiles |-> t]
    /\ InitState

Init ==
    /\ InitPass
    /\ infile = <<>>
    /\ new_file = NoFile

(* ---------------------------------------------------------------------- *)
(* Orchestrator: __main__ and run_with_timeout                              *)
(* ---------------------------------------------------------------------- *)
\* __main__ up to the end of the submission loop of run_with_timeout
StartRun ==
    /\ pc \in {"idle", "done", "crashed"}
    /\ runs < MaxRuns
    /\ \E n \in 1..MaxSample, m \in 1..MaxWorkers :
        /\ num_sample' = n
        /\ max_workers' = m
        /\ IF partition_raises(registry, log_file)
           THEN /\ pc' = "crashed"
                /\ remaining' = <<>>
                /\ wstate' = [t \in Tiles |-> "none"]
           ELSE /\ pc' = "collect"
                /\ remaining' = remaining_from(1, registry, log_file, n)
                /\ wstate' = [t \in Tiles |->
                      IF \E k \in 1..Len(remaining_from(1, registry, log_file, n)) :
                            remaining_from(1, registry, log_file, n)[k] = t
                      THEN "queued" ELSE "none"]
    /\ prev_target' = num_sample
    /\ runs' = runs + 1
    /\ results' = <<>>
    /\ cur' = 1
    /\ ares' = [t \in Tiles |-> NotReady]
    /\ starts' = [t \in Tiles |-> 0]
    /\ abandoned' = {}
    /\ UNCHANGED <<fs, prev, scope, todo, counted, stale, last_completed, interrupted>>
    /\ UNCHANGED corr
    /\ UNCHANGED env

\* async_result.get(timeout) returns the value
Collect ==
    /\ pc = "collect"
    /\ cur <= Len(remaining)
    /\ ares[remaining[cur]] # NotReady
    /\ results' = Append(results, result_of(cur))
    /\ cur' = cur + 1
    /\ UNCHANGED <<fs, pc, runs, num_sample, max_workers, remaining, wrk, hist, interrupted>>
    /\ UNCHANGED corr
    /\ UNCHANGED env

\* async_result.get(timeout) raises multiprocessing.TimeoutError
TimeoutFire ==
    /\ pc = "collect"
    /\ cur <= Len(remaining)
    /\ gives_up(ares[remaining[cur]])
    /\ ~Instantaneous
    /\ results' = Append(results, TimeoutMarker)
    /\ cur' = cur + 1
    /\ abandoned' = IF wstate[remaining[cur]] = "engine"
                    THEN abandoned \cup {remaining[cur]} ELSE abandoned
    /\ UNCHANGED <<fs, pc, runs, num_sample, max_workers, remaining, wrk,
                   starts, prev_target, last_completed, interrupted>>
    /\ UNCHANGED corr
    /\ UNCHANGED env

\* leaving the `with' block: Pool.__exit__ terminates the pool, which kills
\* every worker still executing and drops every task not yet started
FinishPool ==
    /\ pc = "collect"
    /\ cur > Len(remaining)
    /\ pc' = "done"
    /\ wstate' = [t \in Tiles |->
          IF wstate[t] \in Executing THEN "killed"
          ELSE IF wstate[t] = "queued" THEN "dropped" ELSE wstate[t]]
    /\ prev' = [t \in Tiles |-> 0]
    /\ scope' = [t \in Tiles |-> {}]
    /\ todo' = [t \in Tiles |-> {}]
    /\ counted' = [t \in Tiles |-> 0]
    /\ stale' = [t \in Tiles |-> {}]
    /\ \E W \in [Tiles -> SUBSET (0..(MaxSample - 1))] :
        /\ \A t \in Tiles :
              W[t] \in (IF wstate[t] = "engine"
                        THEN engine_files(Cardinality(scope[t])) ELSE {{}})
        /\ temp' = [d \in Tiles |->
              temp[d] \cup UNION {W[t] : t \in {u \in Tiles : name(u) = d}}]
    /\ UNCHANGED <<dst, rec, runs, num_sample, max_workers, remaining, results,
                   cur, ares, hist>>
    /\ UNCHANGED corr
    /\ UNCHANGED env

Finish ==
    /\ FinishPool
    /\ UNCHANGED interrupted

\* the same step, recording for every killed worker where it was killed
FinishTracked ==
    /\ FinishPool
    /\ interrupted' = [t \in Tiles |->
          IF wstate[t] \in Executing THEN phase(wstate[t]) ELSE interrupted[t]]

(* ---------------------------------------------------------------------- *)
(* Worker: generate_and_execute_pipeline                                    *)
(* ---------------------------------------------------------------------- *)
\* the worker's return: the AsyncResult is set and the process exits
Return(t, v) ==
    /\ wstate' = [wstate EXCEPT ![t] = "done"]
    /\ ares' = [ares EXCEPT ![t] = v]
    /\ prev' = [prev EXCEPT ![t] = 0]
    /\ scope' = [scope EXCEPT ![t] = {}]
    /\ todo' = [todo EXCEPT ![t] = {}]
    /\ counted' = [counted EXCEPT ![t] = 0]
    /\ stale' = [stale EXCEPT ![t] = {}]

\* a pool process takes the task: lines 71-111, up to the engine call
Start(t) ==
    /\ pc = "collect"
    /\ ~OrchReady
    /\ NextQueued(t)
    /\ has_idle_process
    /\ starts' = [starts EXCEPT ![t] = starts[t] + 1]
    /\ IF read_raises(rec[name(t)])
       THEN Return(t, except_return(t))
       ELSE IF should_download(prev_of(rec[name(t)]), num_sample)
       THEN /\ wstate' = [wstate EXCEPT ![t] = "engine"]
            /\ prev' = [prev EXCEPT ![t] = prev_of(rec[name(t)])]
            /\ scope' = [scope EXCEPT ![t] =
                  polygon_slice(prev_of(rec[name(t)]), num_sample, registry[t])]
            /\ UNCHANGED <<ares, todo, counted, stale>>
       ELSE Return(t, RetZero(t))
    /\ UNCHANGED <<fs, orch, abandoned, prev_target, last_completed, interrupted>>
    /\ UNCHANGED corr
    /\ UNCHANGED env

\* pipeline.execute() returns after writing its files;
\* filenames_temp = os.listdir(dst_path_temp)
EngineReturn(t) ==
    /\ ~OrchReady
    /\ wstate[t] = "engine"
    /\ \E S \in engine_files(Cardinality(scope[t])) :
        /\ temp' = [temp EXCEPT ![name(t)] = temp[name(t)] \cup S]
        /\ todo' = [todo EXCEPT ![t] = listdir(temp[name(t)], S)]
        /\ stale' = [stale EXCEPT ![t] = temp[name(t)] \ S]
        /\ wstate' = [wstate EXCEPT ![t] =
              IF listdir(temp[name(t)], S) = {} THEN "count0" ELSE "move"]
    /\ UNCHANGED <<dst, rec, orch, ares, prev, scope, counted, hist, interrupted>>
    /\ UNCHANGED corr
    /\ UNCHANGED env

\* pipeline.execute() raises after writing some files; the except clause
\* returns the error string
EngineRaises(t) ==
    /\ ~OrchReady
    /\ wstate[t] = "engine"
    /\ \E S \in engine_files(Cardinality(scope[t])) :
        temp' = [temp EXCEPT ![name(t)] = temp[name(t)] \cup S]
    /\ Return(t, except_return(t))
    /\ UNCHANGED <<dst, rec, orch, hist>>
    /\ UNCHANGED corr
    /\ UNCHANGED env

EngineRaise(t) ==
    /\ EngineRaises(t)
    /\ UNCHANGED interrupted

\* the same step, recording that the dispatch ended in the engine call
EngineRaiseTracked(t) ==
    /\ EngineRaises(t)
    /\ interrupted' = [interrupted EXCEPT ![t] = "engine"]

\* one iteration of the rename loop, in sorted order
Move(t) ==
    /\ ~OrchReady
    /\ wstate[t] = "move"
    /\ LET c == SetMin(todo[t]) IN
        IF c \in temp[name(t)]
        THEN /\ temp' = [temp EXCEPT ![name(t)] = temp[name(t)] \ {c}]
             /\ dst' = [dst EXCEPT ![name(t)] =
                   dst[name(t)] \cup {new_id(prev[t], c)}]
             /\ todo' = [todo EXCEPT ![t] = todo[t] \ {c}]
             /\ wstate' = [wstate EXCEPT ![t] =
                   IF todo[t] \ {c} = {} THEN "count" ELSE "move"]
             /\ UNCHANGED <<ares, prev, scope, counted, stale>>
        \* os.rename of a file that is no longer listed raises
        ELSE /\ Return(t, except_return(t))
             /\ UNCHANGED <<dst, temp>>
    /\ UNCHANGED <<rec, orch, hist, interrupted>>
    /\ UNCHANGED corr
    /\ UNCHANGED env

\* num_downloaded = len(glob(join(dst_path, '*.laz')))
recount_added(t) ==
    (IF rec[name(t)].exists THEN rec[name(t)].completed ELSE 0) + Cardinality(scope[t])
recount_scope(t) == Cardinality(scope[t])
recount(t) == Cardinality(dst[name(t)])

Count(t) ==
    /\ ~OrchReady
    /\ wstate[t] \in {"count", "count0"}
    /\ counted' = [counted EXCEPT ![t] = recount(t)]
    /\ wstate' = [wstate EXCEPT ![t] =
          IF wstate[t] = "count" THEN "open" ELSE "open0"]
    /\ UNCHANGED <<fs, orch, ares, prev, scope, todo, stale, hist, interrupted>>
    /\ UNCHANGED corr
    /\ UNCHANGED env

\* save_txt, first half: open(file_path, 'w') creates or truncates the file
Open(t) ==
    /\ ~OrchReady
    /\ wstate[t] \in {"open", "open0"}
    /\ rec' = [rec EXCEPT ![name(t)] = Truncated]
    /\ wstate' = [wstate EXCEPT ![t] =
          IF wstate[t] = "open" THEN "save" ELSE "save0"]
    /\ UNCHANGED <<dst, temp, orch, ares, prev, scope, todo, counted, stale, hist, interrupted>>
    /\ UNCHANGED corr
    /\ UNCHANGED env

\* save_txt, second half: the two writes reach the file when it is closed;
\* then the return: count after a promotion, 0 when temp_download was empty
Save(t) ==
    /\ ~OrchReady
    /\ wstate[t] \in {"save", "save0"}
    /\ rec' = [rec EXCEPT ![name(t)] = save_txt(counted[t], num_sample)]
    /\ last_completed' = [last_completed EXCEPT ![t] = counted[t]]
    /\ Return(t, IF wstate[t] = "save" THEN RetCount(t) ELSE RetZero(t))
    /\ UNCHANGED <<dst, temp, orch, starts, abandoned, prev_target, interrupted>>
    /\ UNCHANGED corr
    /\ UNCHANGED env

Next ==
    \/ StartRun
    \/ Collect
    \/ TimeoutFire
    \/ Finish
    \/ \E t \in Tiles : Start(t)
    \/ \E t \in Tiles : EngineReturn(t)
    \/ \E t \in Tiles : EngineRaise(t)
    \/ \E t \in Tiles : Move(t)
    \/ \E t \in Tiles : Count(t)
    \/ \E t \in Tiles : Open(t)
    \/ \E t \in Tiles : Save(t)

Spec == Init /\ [][Next]_vars

\* the download pass with the history of unfinished dispatches recorded
NextTracked ==
    \/ StartRun
    \/ Collect
    \/ TimeoutFire
    \/ FinishTracked
    \/ \E t \in Tiles : Start(t)
    \/ \E t \in Tiles : EngineReturn(t)
    \/ \E t \in Tiles : EngineRaiseTracked(t)
    \/ \E t \in Tiles : Move(t)
    \/ \E t \in Tiles : Count(t)
    \/ \E t \in Tiles : Open(t)
    \/ \E t \in Tiles : Save(t)

SpecTracked == Init /\ [][NextTracked]_vars

(* ---------------------------------------------------------------------- *)
(* Tile-correction pass: invalid_filter_mp.py                               *)
(* ---------------------------------------------------------------------- *)
\* results.append(["timeout error"])
CorrTimeoutMarker == [kind |-> "timeout error", of |-> 0]
\* the message check_invalid_and_correct returns
RetMsg(t) == [kind |-> "Success", of |-> t]
\* an exception raised in the worker, re-raised by async_result.get
Raised(e, t) == [kind |-> e, of |-> t]
\* results.append([str(e)])
RetStr(t) == [kind |-> "str(e)", of |-> t]

\* what check_invalid_and_correct can raise: min() of an empty point array
\* (ValueError), a malformed file (LaspyException, LazrsError), an
\* unreadable input or unwritable output (OSError)
ErrorKinds == {"ValueError", "LaspyException", "LazrsError", "OSError"}
\* the classes named by the except clause of run_with_timeout
caught == {"ValueError", "LaspyException", "LazrsError"}

\* the orders list(set) can give the remaining tiles
Orders(S) ==
    {q \in UNION {[1..n -> S] : n \in {Cardinality(S)}} :
        \A i, j \in 1..Cardinality(S) : i # j => q[i] # q[j]}

\* __main__: the tiles without an output file, in the order of a set;
\* every one is submitted to the pool
StartCorrect ==
    /\ pc \in {"idle", "done", "crashed"}
    /\ runs < MaxRuns
    /\ \E m \in 1..MaxWorkers, q \in Orders({t \in DOMAIN registry : out[t] = "none"}) :
        /\ max_workers' = m
        /\ remaining' = q
        /\ wstate' = [t \in Tiles |->
              IF t \in DOMAIN registry /\ out[t] = "none"
              THEN "queued" ELSE "none"]
    /\ pc' = "collect"
    /\ runs' = runs + 1
    /\ results' = <<>>
    /\ cur' = 1
    /\ ares' = [t \in Tiles |-> NotReady]
    /\ starts' = [t \in Tiles |-> 0]
    /\ abandoned' = {}
    /\ UNCHANGED <<fs, corr, num_sample, prev, scope, todo, counted, stale, prev_target,
                   last_completed, interrupted>>
    /\ UNCHANGED env

\* a pool process takes the task and enters check_invalid_and_correct
StartWork(t) ==
    /\ pc = "collect"
    /\ ~OrchReady
    /\ NextQueued(t)
    /\ has_idle_process
    /\ starts' = [starts EXCEPT ![t] = starts[t] + 1]
    /\ wstate' = [wstate EXCEPT ![t] = "work"]
    /\ UNCHANGED <<fs, corr, orch, ares, prev, scope, todo, counted, stale,
                   abandoned, prev_target, last_completed, interrupted>>
    /\ UNCHANGED env

\* the tile is read, filtered or copied, written; the message is returned
WorkReturn(t) ==
    /\ wstate[t] = "work"
    /\ ~OrchReady
    /\ out' = [out EXCEPT ![t] = "written"]
    /\ wstate' = [wstate EXCEPT ![t] = "done"]
    /\ ares' = [ares EXCEPT ![t] = RetMsg(t)]
    /\ UNCHANGED <<fs, orch, prev, scope, todo, counted, stale, hist, interrupted>>
    /\ UNCHANGED env

\* the worker raises: while reading the tile (no output), or while writing
\* it (an incomplete output file is left)
WorkRaise(t) ==
    /\ wstate[t] = "work"
    /\ ~OrchReady
    /\ \E e \in ErrorKinds :
        /\ ares' = [ares EXCEPT ![t] = Raised(e, t)]
        /\ \/ out' = out
           \/ e = "OSError" /\ out' = [out EXCEPT ![t] = "partial"]
    /\ wstate' = [wstate EXCEPT ![t] = "done"]
    /\ UNCHANGED <<fs, orch, prev, scope, todo, counted, stale, hist, interrupted>>
    /\ UNCHANGED env

IsRaised(v) == v.kind \in ErrorKinds

\* async_result.get(timeout) returns the worker's value
CollectValue ==
    /\ pc = "collect"
    /\ cur <= Len(remaining)
    /\ ares[remaining[cur]] # NotReady
    /\ ~IsRaised(ares[remaining[cur]])
    /\ results' = Append(results, result_of(cur))
    /\ cur' = cur + 1
    /\ UNCHANGED <<fs, corr, pc, runs, num_sample, max_workers, remaining,
                   wrk, hist, interrupted>>
    /\ UNCHANGED env

\* async_result.get re-raises the worker's exception and the except clause
\* for (ValueError, LaspyException, LazrsError) appends [str(e)]
CollectCaught ==
    /\ pc = "collect"
    /\ cur <= Len(remaining)
    /\ IsRaised(ares[remaining[cur]])
    /\ ares[remaining[cur]].kind \in caught
    /\ results' = Append(results, RetStr(remaining[cur]))
    /\ cur' = cur + 1
    /\ UNCHANGED <<fs, corr, pc, runs, num_sample, max_workers, remaining,
                   wrk, hist, interrupted>>
    /\ UNCHANGED env

\* the pool is terminated: workers inside check_invalid_and_correct are
\* killed (one that was writing leaves an incomplete file), queued tasks are
\* dropped
PoolTerminated ==
    /\ wstate' = [t \in Tiles |->
          IF wstate[t] \in Executing THEN "killed"
          ELSE IF wstate[t] = "queued" THEN "dropped" ELSE wstate[t]]
    /\ \E P \in SUBSET {t \in Tiles : wstate[t] = "work"} :
          out' = [t \in Tiles |-> IF t \in P THEN "partial" ELSE out[t]]

\* async_result.get re-raises an exception no except clause names: it
\* leaves run_with_timeout through the `with' block and ends the program
Propagate ==
    /\ pc = "collect"
    /\ cur <= Len(remaining)
    /\ IsRaised(ares[remaining[cur]])
    /\ ares[remaining[cur]].kind \notin caught
    /\ pc' = "crashed"
    /\ PoolTerminated
    /\ UNCHANGED <<fs, runs, num_sample, max_workers, remaining, results, cur,
                   ares, prev, scope, todo, counted, stale, hist, interrupted>>
    /\ UNCHANGED env

\* async_result.get(timeout) raises multiprocessing.TimeoutError
CorrTimeoutFire ==
    /\ pc = "collect"
    /\ cur <= Len(remaining)
    /\ gives_up(ares[remaining[cur]])
    /\ ~Instantaneous
    /\ results' = Append(results, CorrTimeoutMarker)
    /\ cur' = cur + 1
    /\ UNCHANGED <<fs, corr, pc, runs, num_sample, max_workers, remaining,
                   wrk, hist, interrupted>>
    /\ UNCHANGED env

\* the loop is over: the `with' block is left and results is returned
CorrFinish ==
    /\ pc = "collect"
    /\ cur > Len(remaining)
    /\ pc' = "done"
    /\ PoolTerminated
    /\ UNCHANGED <<fs, runs, num_sample, max_workers, remaining, results, cur,
                   ares, prev, scope, todo, counted, stale, hist, interrupted>>
    /\ UNCHANGED env

NextCorrect ==
    \/ StartCorrect
    \/ CollectValue
    \/ CollectCaught
    \/ Propagate
    \/ CorrTimeoutFire
    \/ CorrFinish
    \/ \E t \in Tiles : StartWork(t)
    \/ \E t \in Tiles : WorkReturn(t)
    \/ \E t \in Tiles : WorkRaise(t)

SpecCorrect == Init /\ [][NextCorrect]_vars

(* ---------------------------------------------------------------------- *)
(* TileCorrector: check_invalid_and_correct on one tile file                *)
(* ---------------------------------------------------------------------- *)
\* the heuristic length constraint of check_invalid_and_correct
Threshold == 1000

\* coordinates of the point records, and the tile files the corrector is
\* given: 1 to MaxPoints records <<x, y>>. The values give extents at the
\* threshold (1000), just above it with an even and an odd min + max (1002,
\* 1001), and a point on the midpoint of the 1002 extent (501)
XCoords == {0, 501, 1000, 1001, 1002}
YCoords == {0, 501, 1000, 1002}
TileFiles == UNION {[1..n -> XCoords \X YCoords] : n \in 1..MaxPoints}

\* infile.x, infile.y
xs(P) == [i \in DOMAIN P |-> P[i][1]]
ys(P) == [i \in DOMAIN P |-> P[i][2]]

\* a.min(), a.max()
SeqMin(a) == CHOOSE v \in {a[i] : i \in DOMAIN a} : \A i \in DOMAIN a : v <= a[i]
SeqMax(a) == CHOOSE v \in {a[i] : i \in DOMAIN a} : \A i \in DOMAIN a : v >= a[i]

\* x_length = x_range[1] - x_range[0]
ptp(a) == SeqMax(a) - SeqMin(a)

\* x_array < x_center and x_array >= x_center with
\* x_center = (min + max) / 2, compared after doubling both sides
left_mask(a) == [i \in DOMAIN a |-> 2 * a[i] < SeqMin(a) + SeqMax(a)]
right_mask(a) == [i \in DOMAIN a |-> 2 * a[i] >= SeqMin(a) + SeqMax(a)]

\* mask.sum()
mask_sum(m) == Cardinality({i \in DOMAIN m : m[i]})

return_bigger_tile_mask_strict(a) ==
    IF mask_sum(left_mask(a)) > mask_sum(right_mask(a))
    THEN left_mask(a) ELSE right_mask(a)
return_bigger_tile_mask(a) ==
    IF mask_sum(left_mask(a)) >= mask_sum(right_mask(a))
    THEN left_mask(a) ELSE right_mask(a)

\* infile.points[mask]
RECURSIVE masked(_, _)
masked(P, m) ==
    IF Len(P) = 0 THEN <<>>
    ELSE (IF m[1] THEN <<P[1]>> ELSE <<>>) \o masked(Tail(P), Tail(m))

\* if x_length > 1000 or y_length > 1000
is_invalid_both(x_length, y_length) ==
    x_length > Threshold /\ y_length > Threshold
is_invalid(x_length, y_length) ==
    x_length > Threshold \/ y_length > Threshold

\* x if x_length >= y_length else y
split_axis_shorter(x_length, y_length) == IF x_length <= y_length THEN "x" ELSE "y"
split_axis(x_length, y_length) == IF x_length >= y_length THEN "x" ELSE "y"

check_invalid_and_correct(P) ==
    LET x_length == ptp(xs(P))
        y_length == ptp(ys(P))
        axis == split_axis(x_length, y_length)
    IN  IF is_invalid(x_length, y_length)
        THEN [operation |-> "filtered",
              axis |-> axis,
              points |-> masked(P, return_bigger_tile_mask(
                            IF axis = "x" THEN xs(P) ELSE ys(P)))]
        ELSE [operation |-> "copied", axis |-> "none", points |-> P]

InitTile ==
    /\ InitPass
    /\ infile \in TileFiles
    /\ new_file = NoFile

\* one call of check_invalid_and_correct on the tile file
CheckInvalidAndCorrect ==
    /\ new_file = NoFile
    /\ new_file' = check_invalid_and_correct(infile)
    /\ UNCHANGED <<registry, url, infile, fs, orch, wrk, hist, interrupted, corr>>

NextTile == CheckInvalidAndCorrect

SpecTile == InitTile /\ [][NextTile]_vars


(* ---------------------------------------------------------------------- *)
(* Noise-filter pass: noise_filter_mp.py                                    *)
(* ---------------------------------------------------------------------- *)
\* Row t stands for the t-th input file of sorted(glob(in_root/**/*.laz));
\* out[t] is the state of its output_path: "none", "incomplete" (created by
\* the engine's write stage, not finished) or "written".

\* return value "Skipped <output_path> because it exists"
RetSkipped(i) == [kind |-> "skipped", of |-> i]

\* args_list: the inputs whose output_path does not exist, in sorted order
RECURSIVE noise_args_from(_, _, _)
noise_args_from(i, gdf, outs) ==
    IF i > Len(gdf) THEN <<>>
    ELSE (IF outs[i] = "none" THEN <<i>> ELSE <<>>)
         \o noise_args_from(i + 1, gdf, outs)

\* __main__ up to the end of the submission in run_with_timeout
StartNoise ==
    /\ pc \in {"idle", "done"}
    /\ runs < MaxRuns
    /\ \E m \in 1..MaxWorkers : max_workers' = m
    /\ remaining' = noise_args_from(1, registry, out)
    /\ wstate' = [t \in Tiles |->
          IF t \in DOMAIN registry /\ out[t] = "none"
          THEN "queued" ELSE "none"]
    /\ pc' = "collect"
    /\ runs' = runs + 1
    /\ results' = <<>>
    /\ cur' = 1
    /\ ares' = [t \in Tiles |-> NotReady]
    /\ starts' = [t \in Tiles |-> 0]
    /\ abandoned' = {}
    /\ UNCHANGED <<fs, corr, num_sample, prev, scope, todo, counted, stale,
                   prev_target, last_completed, interrupted>>
    /\ UNCHANGED env

\* a pool process takes the task: filter_noise up to pipeline.execute(),
\* whose write stage has output_path as its filename
StartFilter(t) ==
    /\ pc = "collect"
    /\ ~OrchReady
    /\ NextQueued(t)
    /\ has_idle_process
    /\ starts' = [starts EXCEPT ![t] = starts[t] + 1]
    /\ IF out[t] # "none"
       THEN Return(t, RetSkipped(t))
       ELSE /\ wstate' = [wstate EXCEPT ![t] = "engine"]
            /\ UNCHANGED <<ares, prev, scope, todo, counted, stale>>
    /\ UNCHANGED <<fs, corr, orch, abandoned, prev_target, last_completed, interrupted>>
    /\ UNCHANGED env

\* the engine's write stage creates output_path and starts writing it
NoiseEngineWrite(t) ==
    /\ ~OrchReady
    /\ wstate[t] = "engine"
    /\ out[t] = "none"
    /\ out' = [out EXCEPT ![t] = "incomplete"]
    /\ UNCHANGED <<fs, orch, wrk, hist, interrupted>>
    /\ UNCHANGED env

\* pipeline.execute() returns: output_path is complete; the count is returned
NoiseEngineReturn(t) ==
    /\ ~OrchReady
    /\ wstate[t] = "engine"
    /\ out' = [out EXCEPT ![t] = "written"]
    /\ Return(t, RetCount(t))
    /\ UNCHANGED <<fs, orch, hist, interrupted>>
    /\ UNCHANGED env

\* pipeline.execute() raises: the except clause returns the error string and
\* output_path is left as the engine left it
NoiseEngineRaise(t) ==
    /\ ~OrchReady
    /\ wstate[t] = "engine"
    /\ Return(t, except_return(t))
    /\ UNCHANGED <<fs, corr, orch, hist, interrupted>>
    /\ UNCHANGED env

NextNoise ==
    \/ StartNoise
    \/ Collect
    \/ TimeoutFire
    \/ Finish
    \/ \E t \in Tiles : StartFilter(t)
    \/ \E t \in Tiles : NoiseEngineWrite(t)
    \/ \E t \in Tiles : NoiseEngineReturn(t)
    \/ \E t \in Tiles : NoiseEngineRaise(t)

SpecNoise == Init /\ [][NextNoise]_vars


(* ---------------------------------------------------------------------- *)
(* download/download_tiles_mp.py: the second parallel download entry point  *)
(* ---------------------------------------------------------------------- *)
\* its partitioner keeps a row iff the row has no record file; the record is
\* not read
in_remaining_download(r) == ~r.exists

RECURSIVE remaining_download_from(_, _, _)
remaining_download_from(i, gdf, recs) ==
    IF i > Len(gdf) THEN <<>>
    ELSE (IF in_remaining_download(recs[i]) THEN <<i>> ELSE <<>>)
         \o remaining_download_from(i + 1, gdf, recs)

\* __main__ of download/download_tiles_mp.py up to the end of the submission
\* loop of its run_with_timeout
StartRunDownload ==
    /\ pc \in {"idle", "done"}
    /\ runs < MaxRuns
    /\ \E n \in 1..MaxSample, m \in 1..MaxWorkers :
        /\ num_sample' = n
        /\ max_workers' = m
    /\ pc' = "collect"
    /\ remaining' = remaining_download_from(1, registry, log_file)
    /\ wstate' = [t \in Tiles |->
          IF \E k \in 1..Len(remaining_download_from(1, registry, log_file)) :
                remaining_download_from(1, registry, log_file)[k] = t
          THEN "queued" ELSE "none"]
    /\ prev_target' = num_sample
    /\ runs' = runs + 1
    /\ results' = <<>>
    /\ cur' = 1
    /\ ares' = [t \in Tiles |-> NotReady]
    /\ starts' = [t \in Tiles |-> 0]
    /\ abandoned' = {}
    /\ UNCHANGED <<fs, prev, scope, todo, counted, stale, last_completed, interrupted>>
    /\ UNCHANGED corr
    /\ UNCHANGED env

\* its worker and its run_with_timeout are those of download_tiles_mp.py: the
\* worker's test "prev_num_sample >= num_sample: return 0" is the negation of
\* should_download for every num_sample >= 1
NextDownload ==
    \/ StartRunDownload
    \/ Collect
    \/ TimeoutFire
    \/ Finish
    \/ \E t \in Tiles : Start(t)
    \/ \E t \in Tiles : EngineReturn(t)
    \/ \E t \in Tiles : EngineRaise(t)
    \/ \E t \in Tiles : Move(t)
    \/ \E t \in Tiles : Count(t)
    \/ \E t \in Tiles : Open(t)
    \/ \E t \in Tiles : Save(t)

SpecDownload == Init /\ [][NextDownload]_vars

(* ---------------------------------------------------------------------- *)
(* A registry with two rows stored in one directory                         *)
(* ---------------------------------------------------------------------- *)
\* two rows whose URLs have the same parent path segment: both rows get the
\* same dst_path, temp_download and log file
InitShared ==
    /\ registry = <<1, 1>>
    /\ url = [t \in Tiles |-> 1]
    /\ InitState
    /\ infile = <<>>
    /\ new_file = NoFile

SpecShared == InitShared /\ [][Next]_vars

\* The orchestrator's own steps, the pool's dispatch and the worker's Python
\* code after the engine call always proceed; the engine call may never
\* return.
Fairness ==
    /\ WF_vars(Collect)
    /\ WF_vars(TimeoutFire)
    /\ WF_vars(Finish)
    /\ \A t \in Tiles :
        /\ WF_vars(Start(t))
        /\ WF_vars(Move(t))
        /\ WF_vars(Count(t))
        /\ WF_vars(Open(t))
        /\ WF_vars(Save(t))

FairSpec == Spec /\ Fairness

(* ---------------------------------------------------------------------- *)
(* Properties                                                               *)
(* ---------------------------------------------------------------------- *)
Submitted == 1..Len(remaining)

\* C1: once the timeout of a tile expired during its engine call, no shard of
\* the tile is moved into dst_path and no progress record is written for it
\* until the end of the run.
C1_TimeoutAbortsDispatch ==
    [][\A t \in Tiles :
          t \in abandoned => dst'[t] = dst[t] /\ rec'[t] = rec[t]]_vars

C3_AuthoritativeRecount ==
    [][\A t \in Tiles :
          (wstate[t] \in {"save", "save0"} /\ wstate'[t] = "done")
          => /\ rec'[t].exists
             /\ rec'[t].completed = Cardinality(dst'[t])]_vars

C3_Witness ==
    \E t \in Tiles :
        /\ wstate[t] = "done" /\ ares[t] = RetCount(t)
        /\ rec[t].exists /\ rec[t].completed = Cardinality(dst[t])
        /\ 0 < rec[t].completed /\ rec[t].completed < rec[t].required

\* C4 (as stated): a run with the same num_sample as the run before it
\* changes no shard file in any dst_path and no progress record.
C4_Idempotent ==
    [][(pc = "collect" /\ prev_target = num_sample)
          => (dst' = dst /\ rec' = rec)]_vars

\* C4 (amended): a run with the same num_sample as the run before it changes
\* neither the shard files nor the record of a tile whose record already
\* holds required = num_sample.
C4_IdempotentOnceCommitted ==
    [][\A t \in Tiles :
          (pc = "collect" /\ prev_target = num_sample
              /\ rec[t].exists /\ rec[t].required = num_sample)
          => (dst'[t] = dst[t] /\ rec'[t] = rec[t])]_vars

C4_Witness ==
    /\ pc = "done" /\ runs = 2 /\ prev_target = num_sample
    /\ \E t \in Tiles :
        /\ wstate[t] = "none"
        /\ rec[t].exists /\ rec[t].required = num_sample
        /\ 0 < rec[t].completed /\ rec[t].completed < rec[t].required

\* C5: when a task timed out, every other submitted task was executed and
\* its entry in results is its own return value, or the timeout marker if
\* its own engine call outlasted the wait for it.
C5_FaultIsolation ==
    pc = "done" =>
        \A i \in Submitted, j \in Submitted :
            (i # j /\ results[j] = TimeoutMarker)
            => /\ starts[remaining[i]] = 1
               /\ \/ results[i] = ares[remaining[i]]
                  \/ results[i] = TimeoutMarker /\ remaining[i] \in abandoned

\* C6: a task is reported as timed out only if its own engine call was under
\* way when the wait for it expired: an execution that had not begun did not
\* last longer than the timeout.
C6_IndependentTimeout ==
    \A i \in 1..Len(results) :
        results[i] = TimeoutMarker => remaining[i] \in abandoned

\* C7: no task is started twice, and when the run ends every submitted task
\* has been started.
C7_ConsumedExactlyOnce ==
    /\ \A t \in Tiles : starts[t] <= 1
    /\ pc = "done" => \A i \in Submitted : starts[remaining[i]] = 1

\* C8: results has one entry per submitted task, and entry i is the timeout
\* marker or the value returned by the worker of the i-th submitted task.
C8_ResultAssociation ==
    /\ Len(results) <= Len(remaining)
    /\ pc = "done" => Len(results) = Len(remaining)
    /\ \A i \in 1..Len(results) :
          \/ results[i] = TimeoutMarker
          \/ /\ results[i].of = remaining[i]
             /\ results[i] = ares[remaining[i]]

C8_Witness ==
    /\ pc = "done" /\ Len(results) = 2
    /\ results[1] = TimeoutMarker
    /\ results[2] = RetZero(remaining[2])
    /\ ares[remaining[1]] = RetCount(remaining[1])

\* C9: every run that was started ends, whatever the engine does.
C9_RunCompletes == (pc = "collect") ~> (pc = "done")

C9_Witness ==
    /\ pc = "done"
    /\ \E t \in Tiles : wstate[t] = "killed"
    /\ \E t \in Tiles : ares[t] = RetError(t)

\* C10: in the correction pass no worker's error leaves run_with_timeout, and
\* when the run ends every task whose worker raised has a failure entry
\* (or the timeout marker) at its place in results.
C10_ErrorsCaptured ==
    /\ pc # "crashed"
    /\ pc = "done" =>
          \A i \in Submitted :
              IsRaised(ares[remaining[i]])
              => results[i] \in {RetStr(remaining[i]), CorrTimeoutMarker}

\* C11: while a worker is in its engine call, and after its engine call
\* raised, no file of its tile is moved into the destination and the tile's
\* progress record is not written; the worker that leaves the engine call by
\* an exception returns the failure value.
C11_EngineFailureAborts ==
    [][\A t \in Tiles :
        /\ (wstate[t] = "engine" /\ wstate'[t] = "done")
            => ares'[t] = RetError(t)
        /\ (wstate[t] = "engine" \/ ares[t] = RetError(t))
            => (dst'[t] = dst[t] /\ rec'[t] = rec[t])]_vars

C11_Witness ==
    \E t \in Tiles :
        /\ pc = "done"
        /\ ares[t] = RetError(t)
        /\ temp[t] # {}
        /\ dst[t] = {}
        /\ rec[t] = NoRec

\* C12: a reader of a progress record never finds a record it cannot read:
\* the record file is never empty or partially written.
C12_AtomicCommit ==
    \A t \in Tiles : ~read_raises(rec[t])

\* C13: every record written for a tile has a completed count that is at
\* least the completed count of the record written before it for that tile.
C13_CompletedMonotone ==
    [][\A t \in Tiles :
        (rec'[t] # rec[t] /\ ~read_raises(rec'[t]))
        => rec'[t].completed >= last_completed[t]]_vars

C13_Witness ==
    \E t \in Tiles :
        /\ prev_target = 1
        /\ num_sample = 3
        /\ wstate[t] = "done"
        /\ ares[t] = RetCount(t)
        /\ rec[t] = save_txt(3, 3)
        /\ last_completed[t] = 3

\* C14: a run's partitioning ends without an error, and every tile it emits
\* has a resume offset (prev_num_sample, 0 without a record) below the target
\* and below the tile's number of polygons.
C14_PartitionerEmits ==
    [][runs' # runs =>
        /\ pc' # "crashed"
        /\ \A k \in 1..Len(remaining') :
            /\ prev_of(rec[remaining'[k]]) < num_sample'
            /\ prev_of(rec[remaining'[k]]) < registry[remaining'[k]]]_vars

\* C18: when the next staged file's global id names a file that is already
\* in the destination, the worker does not rename the staged file onto it:
\* the staged file stays in temp_download.
C18_NoSilentOverwrite ==
    [][\A t \in Tiles :
        (/\ wstate[t] = "move"
         /\ todo[t] # {}
         /\ new_id(prev[t], SetMin(todo[t])) \in dst[t])
        => SetMin(todo[t]) \in temp'[t]]_vars

\* C19: every file a worker renames into the destination was written by its
\* own engine call, not left in temp_download by an earlier dispatch.
C19_PromotesOwnFilesOnly ==
    [][\A t \in Tiles :
        (/\ wstate[t] = "move"
         /\ wstate'[t] \in {"move", "count"}
         /\ todo'[t] # todo[t])
        => SetMin(todo[t]) \notin stale[t]]_vars

\* C20: when a worker has returned, its temp_download directory holds no
\* file.
C20_StagingDiscarded ==
    \A t \in Tiles : wstate[t] = "done" => temp[t] = {}

\* extent of the written tile's input along each axis, from the point records
Extent(S) == CHOOSE d \in {a - b : a \in S, b \in S} : \A a \in S, b \in S : a - b <= d
XExtent == Extent({infile[i][1] : i \in DOMAIN infile})
YExtent == Extent({infile[i][2] : i \in DOMAIN infile})

\* C16: the tile is copied unchanged exactly when both extents are at most
\* 1000; otherwise it is split, along the axis with the larger extent, and
\* along x when the extents are equal.
C16_CorrectorDecision ==
    new_file # NoFile =>
        /\ new_file.operation = "copied"
            <=> (XExtent <= Threshold /\ YExtent <= Threshold)
        /\ new_file.operation = "copied" => new_file.points = infile
        /\ new_file.operation # "copied" =>
            /\ new_file.operation = "filtered"
            /\ new_file.axis = (IF YExtent > XExtent THEN "y" ELSE "x")

C16_Witness ==
    /\ new_file.operation = "filtered"
    /\ new_file.axis = "y"
    /\ XExtent <= Threshold
    /\ YExtent > Threshold

\* the coordinate of point record p along the axis the tile was split on
SplitCoord(p) == IF new_file.axis = "x" THEN p[1] ELSE p[2]
SplitSum ==
    LET S == {SplitCoord(infile[i]) : i \in DOMAIN infile}
    IN  (CHOOSE v \in S : \A w \in S : v <= w) + (CHOOSE v \in S : \A w \in S : v >= w)
LowerPartition == SelectSeq(infile, LAMBDA p : 2 * SplitCoord(p) < SplitSum)
UpperPartition == SelectSeq(infile, LAMBDA p : 2 * SplitCoord(p) >= SplitSum)

\* C17: a split tile's points fall into the partition below the midpoint
\* (min + max) / 2 of the split axis and the partition at or above it; the
\* two together hold every point once; the written file is one of the two,
\* it has at least as many points as the other, and on a tie it is the
\* lower one.
C17_CorrectionDominance ==
    new_file.operation = "filtered" =>
        /\ Len(LowerPartition) + Len(UpperPartition) = Len(infile)
        /\ new_file.points \in {LowerPartition, UpperPartition}
        /\ Len(new_file.points) >= Len(infile) - Len(new_file.points)
        /\ Len(LowerPartition) = Len(UpperPartition)
            => new_file.points = LowerPartition

C17_Witness ==
    /\ new_file.operation = "filtered"
    /\ Len(LowerPartition) = Len(UpperPartition)
    /\ new_file.points = LowerPartition
    /\ Len(infile) = 2

\* C15: while a worker is in its engine call nothing appears at the final
\* destination: the engine writes neither a file of the tile directory nor
\* the output file of the item.
C15_EngineWritesStagingOnly ==
    [][\A t \in Tiles :
        wstate[t] = "engine" => (dst'[t] = dst[t] /\ out'[t] = out[t])]_vars

\* C21: for a tile none of whose dispatches was killed or ended in an engine
\* exception, no rename targets a global id that is already in the
\* destination: every rename adds one file to the destination.
C21_InjectiveIds ==
    [][\A t \in Tiles :
        (/\ interrupted[t] = "no"
         /\ wstate[t] = "move"
         /\ wstate'[t] \in {"move", "count"}
         /\ todo'[t] # todo[t])
        => Cardinality(dst'[t]) = Cardinality(dst[t]) + 1]_vars

C21_Witness ==
    \E t \in Tiles :
        /\ interrupted[t] = "no"
        /\ wstate[t] = "count"
        /\ prev[t] >= 1
        /\ \E k \in dst[t] : k < prev[t]
        /\ \E k \in dst[t] : k >= prev[t]

\* C22: each iteration of the rename loop moves the staged file with the
\* lowest remaining local index i to global id prev_num_sample + i and
\* touches no other file; when the loop ends no file is left in staging.
C22_PromotionMapping ==
    [][\A t \in Tiles :
        (/\ wstate[t] = "move"
         /\ wstate'[t] \in {"move", "count"}
         /\ todo'[t] # todo[t])
        => /\ dst'[t] = dst[t] \cup {prev[t] + SetMin(todo[t])}
           /\ temp'[t] = temp[t] \ {SetMin(todo[t])}
           /\ wstate'[t] = "count" => temp'[t] = {}]_vars

C22_Witness ==
    \E t \in Tiles :
        /\ wstate[t] = "count"
        /\ prev[t] = 1
        /\ temp[t] = {}
        /\ dst[t] = {0, 1, 2}

\* C23: when the engine call returns having written no file, the worker
\* takes the nothing-downloaded path: it renames nothing, writes the record
\* (num_sample, number of files in the destination) and returns 0.
C23_EmptyStagingNoError ==
    [][\A t \in Tiles :
        /\ (/\ wstate[t] = "engine"
            /\ wstate'[t] \in {"move", "count0"}
            /\ stale'[t] = todo'[t])
           => wstate'[t] = "count0"
        /\ (wstate[t] = "save0" /\ wstate'[t] = "done")
           => /\ dst'[t] = dst[t]
              /\ rec'[t] = save_txt(Cardinality(dst[t]), num_sample)
              /\ ares'[t] = RetZero(t)]_vars

\* C24: a run that finds an unreadable record still partitions: it does not
\* end with an error, and every tile with a readable or no record that the
\* partitioner's test keeps is emitted.
C24_CorruptRecordConfined ==
    [][(runs' # runs /\ \E t \in DOMAIN registry : read_raises(rec[t]))
        => /\ pc' = "collect"
           /\ \A u \in DOMAIN registry :
                (~read_raises(rec[u])
                 /\ in_remaining(rec[u], num_sample', registry[u]))
                => \E k \in 1..Len(remaining') : remaining'[k] = u]_vars

\* C25: when the last unfinished dispatch of a tile was killed during its
\* reconciliation, a later dispatch of the tile that returns normally leaves
\* a record whose completed is the number of files in the destination, and
\* no file in staging.
C25_RepairAfterCrash ==
    \A t \in Tiles :
        (/\ interrupted[t] = "reconcile"
         /\ wstate[t] = "done"
         /\ ares[t] \in {RetCount(t), RetZero(t)})
        => /\ rec[t].exists
           /\ rec[t].completed = Cardinality(dst[t])
           /\ temp[t] = {}

C25_Witness ==
    \E t \in Tiles :
        /\ interrupted[t] = "reconcile"
        /\ wstate[t] = "done"
        /\ ares[t] = RetCount(t)
        /\ rec[t].completed = Cardinality(dst[t])
        /\ Cardinality(dst[t]) >= 2

\* C26: during a run at most max_workers tasks are being executed, and
\* every emitted task has been submitted: it is queued, executing or done.
C26_BoundedConcurrency ==
    pc = "collect" =>
        /\ Busy <= max_workers
        /\ \A k \in 1..Len(remaining) :
            wstate[remaining[k]] \in {"queued", "done"} \cup Executing

C26_Witness ==
    /\ pc = "collect"
    /\ max_workers = 1
    /\ Busy = 1
    /\ \E t \in Tiles : wstate[t] = "queued"

\* C27: the work queue lists registry rows in strictly increasing order.
C27_RegistryOrder ==
    \A i \in 1..Len(remaining), j \in 1..Len(remaining) :
        i < j => remaining[i] < remaining[j]

C27_Witness ==
    /\ pc = "collect"
    /\ Len(remaining) = 2
    /\ remaining[1] < remaining[2]

\* C28: in every readable progress record, completed <= required.
C28_CompletedAtMostRequired ==
    \A t \in Tiles :
        (rec[t].exists /\ ~read_raises(rec[t]))
        => rec[t].completed <= rec[t].required

\* C30: at the start of a run of either download entry point, every tile whose
\* record exists and whose resume offset is below both the target and the
\* tile's number of sub-regions is emitted as a work item.
C30_PartitionerComplete ==
    [][runs' # runs =>
         \A t \in DOMAIN registry :
            (/\ rec[t].exists
             /\ ~read_raises(rec[t])
             /\ prev_of(rec[t]) < num_sample'
             /\ prev_of(rec[t]) < registry[t])
            => \E k \in 1..Len(remaining') : remaining'[k] = t]_vars

\* C29: within a run, two workers that execute at the same time never work
\* on the same destination directory, staging directory and progress record.
C29_OneWorkerPerKey ==
    \A t, u \in Tiles :
        (t # u /\ wstate[t] \in Executing /\ wstate[u] \in Executing)
        => name(t) # name(u)

\* the extent of the point records P along an axis
AxisExtent(P, axis) ==
    Extent({(IF axis = "x" THEN P[i][1] ELSE P[i][2]) : i \in DOMAIN P})
OtherAxis == IF new_file.axis = "x" THEN "y" ELSE "x"

====
